---- MODULE Spec2Model ----
(***************************************************************************)
(* Touch telemetry link: a sensor node (src/src/sensor-node.cpp) samples   *)
(* capacitive-touch channels, filters them and broadcasts packed           *)
(* datagrams; a hub node (src/src/usb-hub-node.cpp) receives them in an    *)
(* asynchronous callback into a one-slot mailbox and prints one CSV line   *)
(* per drained datagram.                                                   *)
(*                                                                         *)
(* Conventions of the model                                                *)
(*  - memory is modelled at byte level: the packed TouchPacket is a        *)
(*    sequence of 75 bytes, little-endian, exactly as the struct lies in   *)
(*    memory (#pragma pack(1));                                            *)
(*  - a uint32_t is a pair <<hi, lo>> of 16-bit halves, because the        *)
(*    integers of TLC are 32-bit signed; arithmetic on it is mod 2^32;     *)
(*  - a float is a fixed-point integer in units of 1/FixedOne;             *)
(*  - the hub's main loop is one action per statement, so that the         *)
(*    receive callback can interleave wherever interrupts are enabled;     *)
(*  - variables named *Log are history variables: the code does not have   *)
(*    them, they record what happened so that properties can refer to it.  *)
(***************************************************************************)
EXTENDS Integers, Sequences, FiniteSets, TLC

\* ------------------------------------------------------------------ bounds

\* Deliveries the radio makes to the hub in one run.
MaxRecv == 2

\* Calls of the sensor's loop() in one run.
MaxTicks == 3

\* ------------------------------------------------------------ integer kit

Min(a, b) == IF a < b THEN a ELSE b

\* A uint32_t as <<hi, lo>>, value hi * 2^16 + lo.
U32(hi, lo) == <<hi, lo>>

U32Zero == U32(0, 0)

\* (a - b) mod 2^32: the subtraction of two uint32_t.
U32Sub(a, b) ==
  LET lo == a[2] - b[2]
      borrow == IF lo < 0 THEN 1 ELSE 0
  IN  U32((a[1] - b[1] - borrow) % 65536, lo % 65536)

\* (a + d) mod 2^32 for a small natural d.
U32Add(a, d) ==
  LET lo == a[2] + d
  IN  U32((a[1] + (lo \div 65536)) % 65536, lo % 65536)

\* a >= k for a uint32_t a and a natural k < 2^16.
U32GeNat(a, k) == a[1] > 0 \/ a[2] >= k

\* -------------------------------------------------------- wire / memory

\* sizeof(TouchPacket) with pack(1): 1 + 1 + 3 + 2 + 4 + 2 * 32.
PacketSize == 1 + 1 + 3 + 2 + 4 + 2 * 32

\* The bytes of a TouchPacket value as they lie in memory (little-endian).
\* d.v has 32 entries.
PktBytes(d) ==
  <<d.ver, d.n, d.id[1], d.id[2], d.id[3],
    d.seq % 256, d.seq \div 256,
    d.ms[2] % 256, d.ms[2] \div 256, d.ms[1] % 256, d.ms[1] \div 256>>
  \o [k \in 1..64 |->
        LET x == d.v[(k + 1) \div 2]
        IN  IF k % 2 = 1 THEN x % 256 ELSE x \div 256]

\* Field reads of a TouchPacket held as 75 bytes b.
FieldVer(b) == b[1]
FieldN(b) == b[2]
FieldId(b) == <<b[3], b[4], b[5]>>
\* Mutant of FieldSeq: seq read high byte first.
FieldSeq_BigEndian(b) == 256 * b[6] + b[7]

FieldSeq(b) == b[6] + 256 * b[7]
FieldMs(b) == U32(b[10] + 256 * b[11], b[8] + 256 * b[9])
\* v[i], i from 0.
FieldV(b, i) == b[12 + 2 * i] + 256 * b[13 + 2 * i]

ZeroBytes(n) == [k \in 1..n |-> 0]

\* ------------------------------------------------------------ formatting

HexDigit == <<"0", "1", "2", "3", "4", "5", "6", "7",
              "8", "9", "A", "B", "C", "D", "E", "F">>

\* printf("%02X", b) for a byte b.
Hex2(b) == HexDigit[(b \div 16) + 1] \o HexDigit[(b % 16) + 1]

RECURSIVE Dec(_)
\* Print of a non-negative int: decimal, no leading zeros.
Dec(x) == IF x < 10 THEN HexDigit[x + 1]
          ELSE Dec(x \div 10) \o HexDigit[(x % 10) + 1]

RECURSIVE DecU32(_)
\* Print of a uint32_t: decimal, by long division of the two halves by 10.
DecU32(a) ==
  IF a[1] = 0 THEN Dec(a[2])
  ELSE LET rest == (a[1] % 10) * 65536 + a[2]
       IN  DecU32(U32(a[1] \div 10, rest \div 10)) \o HexDigit[(rest % 10) + 1]

\* ---------------------------------------------------------------- state

VARIABLES
  \* hub (usb-hub-node.cpp)
  pc,          \* position of the hub's main thread: "setup", "halt", "L43"...
  pktReady,    \* volatile bool pktReady
  pkt,         \* TouchPacket pkt, the mailbox, as 75 bytes
  lastSender,  \* uint8_t lastSender[6]
  cbRegistered,\* esp_now_register_recv_cb(onRecv) has run
  intMasked,   \* between noInterrupts() and interrupts()
  p,           \* loop's local TouchPacket p, as 75 bytes
  m,           \* loop's local uint8_t m[6]
  macbuf,      \* loop's local char macbuf[13]
  i,           \* loop's for-index
  serial,      \* what the hub wrote to Serial, one entry per print call
  recvLog,     \* history: every delivery the radio made: its MAC and payload,
               \* whether it fell between loop's test of pktReady and
               \* noInterrupts(), and the two slots as the callback left them
  drainLog     \* history: Len(recvLog) at each clearing of pktReady by loop

hubVars == <<pc, pktReady, pkt, lastSender, cbRegistered, intMasked, p, m,
             macbuf, i, serial, recvLog, drainLog>>

VARIABLES
  \* sensor (sensor-node.cpp)
  spc,         \* position of the sensor's thread: "setup", "halt", "loop"
  targetHz,    \* TARGET_HZ of the build
  clock,       \* the millisecond counter that millis() reads, a uint32_t
  filt,        \* float filt[], per channel 0..NUM_CH-1, in units of 1/FixedOne
  baseline,    \* float baseline[], likewise
  seq,         \* uint16_t seq
  lastSend,    \* loop's static uint32_t lastSend
  spkt,        \* the sensor's TouchPacket pkt, as a record of its fields
  sserial,     \* what the sensor wrote to its debug Serial
  air,         \* history: every call of esp_now_send: destination and bytes
  ticks,       \* history: calls of loop() so far
  sinceBoot,   \* history: the behaviour started at power-on
  pins         \* environment: what touchRead returns per channel while the
               \* electrodes are left alone (the scenario specifications
               \* read it; elsewhere the reads are drawn freely)

sensorVars == <<spc, targetHz, clock, filt, baseline, seq, lastSend, spkt,
                sserial, air, ticks, sinceBoot, pins>>

vars == <<hubVars, sensorVars>>

\* ----------------------------------------------------- radio environment

MacA == <<161, 178, 195, 212, 229, 246>>   \* A1:B2:C3:D4:E5:F6
MacB == <<16, 32, 48, 170, 0, 187>>        \* 10:20:30:AA:00:BB
HubMac == <<36, 10, 196, 0, 1, 2>>         \* 24:0A:C4:00:01:02

Pad32(v) == [k \in 1..32 |-> IF k <= Len(v) THEN v[k] ELSE 0]

\* Two well-formed datagram values, one per sensor.
DgA == [ver |-> 1, n |-> 2, id |-> <<212, 229, 246>>, seq |-> 42,
        ms |-> U32(1, 57920), v |-> Pad32(<<5000, 1000>>)]
DgB == [ver |-> 1, n |-> 1, id |-> <<170, 0, 187>>, seq |-> 65535,
        ms |-> U32(65535, 65535), v |-> Pad32(<<65535>>)]
\* Declares 2 channels; sent cut short below.
DgC == [ver |-> 1, n |-> 2, id |-> <<170, 0, 187>>, seq |-> 7,
        ms |-> U32(0, 9), v |-> Pad32(<<300, 400>>)]
\* Declares no channel.
DgZ == [ver |-> 1, n |-> 0, id |-> <<212, 229, 246>>, seq |-> 0,
        ms |-> U32(0, 0), v |-> Pad32(<<>>)]
\* Declares 40 channels.
DgO == [ver |-> 1, n |-> 40, id |-> <<212, 229, 246>>, seq |-> 258,
        ms |-> U32(0, 4), v |-> [k \in 1..32 |-> 1000 + k]]

\* The first len bytes of the datagram's memory image: what a sender whose
\* struct holds d puts on the air when it sends len bytes.
Wire(d, len) == SubSeq(PktBytes(d), 1, len)

\* What the radio may deliver to the hub: (sender MAC, payload).
Deliveries ==
  { [mac |-> MacA, data |-> Wire(DgA, 15)],         \* well-formed, 11 + 2*2
    [mac |-> MacB, data |-> Wire(DgB, 13)],         \* well-formed, 11 + 2*1
    [mac |-> MacB, data |-> Wire(DgB, 10)],         \* shorter than the header
    [mac |-> MacB, data |-> Wire(DgC, 13)],         \* n = 2, one value carried
    [mac |-> MacA, data |-> Wire(DgZ, 11)],         \* header only
    [mac |-> MacA, data |-> Wire(DgO, 75) \o [k \in 1..25 |-> 200 + k]] }
                                                    \* 100 bytes, n = 40

\* ------------------------------------------------------------------- hub

\* Globals are zero-initialised; setup has not run.
HubInit ==
  /\ pc = "setup"
  /\ pktReady = FALSE
  /\ pkt = ZeroBytes(PacketSize)
  /\ lastSender = ZeroBytes(6)
  /\ cbRegistered = FALSE
  /\ intMasked = FALSE
  /\ p = ZeroBytes(PacketSize)
  /\ m = ZeroBytes(6)
  /\ macbuf = ""
  /\ i = 0
  /\ serial = <<>>
  /\ recvLog = <<>>
  /\ drainLog = <<>>

\* The length below which onRecv returns at once.
HeaderLen == 2 + 3 + 2 + 4

\* Mutant of TooShort: a mailbox that is still full keeps the older datagram.
TooShort_KeepOldest(len) == len < HeaderLen \/ pktReady

\* Mutant of TooShort: the header is taken to be one byte shorter.
TooShort_OffByOne(len) == len < HeaderLen - 1

\* onRecv's test of len.
TooShort(len) == len < HeaderLen

\* Mutant of Memcpy: the bytes after the n copied ones are zeroed.
Memcpy_ZeroRest(dst, src, n) ==
  [k \in 1..Len(dst) |-> IF k <= n THEN src[k] ELSE 0]

\* memcpy(dst, src, n) into the front of dst.
Memcpy(dst, src, n) == [k \in 1..Len(dst) |-> IF k <= n THEN src[k] ELSE dst[k]]

\* Mutant of CallbackMayRun: the callback pre-empts the critical section too.
CallbackMayRun_Unmasked == cbRegistered

\* Whether the radio layer can run the callback now.

CallbackMayRun == cbRegistered /\ ~intMasked

\* void onRecv(mac, data, len): the receive callback, run to completion.
onRecv(d) ==
  /\ CallbackMayRun
  /\ Len(recvLog) < MaxRecv
  /\ LET len == Len(d.data)
     IN  IF TooShort(len)
         THEN /\ UNCHANGED <<pkt, lastSender, pktReady>>
              /\ recvLog' = Append(recvLog,
                   [mac |-> d.mac, data |-> d.data, afterTest |-> (pc = "L44"),
                    pkt |-> pkt,
                    sender |-> lastSender])
         ELSE LET box == Memcpy(pkt, d.data, Min(len, PacketSize))
                  snd == Memcpy(lastSender, d.mac, 6)
              IN  /\ pkt' = box
                  /\ lastSender' = snd
                  /\ pktReady' = TRUE
                  /\ recvLog' = Append(recvLog,
                       [mac |-> d.mac, data |-> d.data,
                        afterTest |-> (pc = "L44"), pkt |-> box,
                        sender |-> snd])
  /\ UNCHANGED <<pc, cbRegistered, intMasked, p, m, macbuf, i, serial, drainLog>>
  /\ UNCHANGED sensorVars

\* setup() without the while(1) after the message: it goes on to register
\* the callback and print the MAC.
HubSetupFail_NoHalt ==
  /\ pc = "setup"
  /\ pc' = "L43"
  /\ cbRegistered' = TRUE
  /\ serial' = serial \o <<"ESP-NOW init failed\r\n", "HUB_MAC\n">>
  /\ UNCHANGED <<pktReady, pkt, lastSender, intMasked, p, m, macbuf, i,
                 recvLog, drainLog>>
  /\ UNCHANGED sensorVars

\* setup(), esp_now_init() failing: one message, then while(1) delay(100).
HubSetupFail ==
  /\ pc = "setup"
  /\ pc' = "halt"
  /\ serial' = Append(serial, "ESP-NOW init failed\r\n")
  /\ UNCHANGED <<pktReady, pkt, lastSender, cbRegistered, intMasked, p, m,
                 macbuf, i, recvLog, drainLog>>
  /\ UNCHANGED sensorVars

\* Serial.printf("HUB_MAC %02X:%02X:%02X:%02X:%02X:%02X\n", ...)
HubMacLine(mac) ==
  "HUB_MAC " \o Hex2(mac[1]) \o ":" \o Hex2(mac[2]) \o ":" \o Hex2(mac[3])
  \o ":" \o Hex2(mac[4]) \o ":" \o Hex2(mac[5]) \o ":" \o Hex2(mac[6]) \o "\n"

\* setup(), esp_now_init() succeeding: register the callback, print the MAC.
HubSetupOk ==
  /\ pc = "setup"
  /\ pc' = "L43"
  /\ cbRegistered' = TRUE
  /\ serial' = Append(serial, HubMacLine(HubMac))
  /\ UNCHANGED <<pktReady, pkt, lastSender, intMasked, p, m, macbuf, i,
                 recvLog, drainLog>>
  /\ UNCHANGED sensorVars

\* while(1) delay(100);
HubHalted ==
  /\ pc = "halt"
  /\ UNCHANGED hubVars
  /\ UNCHANGED sensorVars

\* Mutant of LoopTest: loop() goes on whether or not pktReady is set.
LoopTest_NoTest ==
  /\ pc = "L43"
  /\ pc' = "L44"
  /\ UNCHANGED <<pktReady, pkt, lastSender, cbRegistered, intMasked, p, m,
                 macbuf, i, serial, recvLog, drainLog>>
  /\ UNCHANGED sensorVars

\* loop(), line 43: if (!pktReady) return;
LoopTest ==
  /\ pc = "L43"
  /\ pc' = IF pktReady THEN "L44" ELSE "L43"
  /\ UNCHANGED <<pktReady, pkt, lastSender, cbRegistered, intMasked, p, m,
                 macbuf, i, serial, recvLog, drainLog>>
  /\ UNCHANGED sensorVars

\* Mutant of NoInterrupts: the critical section masks nothing.
NoInterrupts_NoMask ==
  /\ pc = "L44"
  /\ pc' = "L45"
  /\ UNCHANGED <<pktReady, pkt, lastSender, cbRegistered, intMasked, p, m,
                 macbuf, i, serial, recvLog, drainLog>>
  /\ UNCHANGED sensorVars

\* line 44: noInterrupts();
NoInterrupts ==
  /\ pc = "L44"
  /\ pc' = "L45"
  /\ intMasked' = TRUE
  /\ UNCHANGED <<pktReady, pkt, lastSender, cbRegistered, p, m, macbuf, i,
                 serial, recvLog, drainLog>>
  /\ UNCHANGED sensorVars

\* line 45: TouchPacket p = pkt;
CopyPacket ==
  /\ pc = "L45"
  /\ pc' = "L46"
  /\ p' = pkt
  /\ UNCHANGED <<pktReady, pkt, lastSender, cbRegistered, intMasked, m,
                 macbuf, i, serial, recvLog, drainLog>>
  /\ UNCHANGED sensorVars

\* line 46: uint8_t m[6]; memcpy(m, lastSender, 6);
CopySender ==
  /\ pc = "L46"
  /\ pc' = "L47"
  /\ m' = Memcpy(m, lastSender, 6)
  /\ UNCHANGED <<pktReady, pkt, lastSender, cbRegistered, intMasked, p,
                 macbuf, i, serial, recvLog, drainLog>>
  /\ UNCHANGED sensorVars

\* line 47: pktReady = false;
ClearReady ==
  /\ pc = "L47"
  /\ pc' = "L48"
  /\ pktReady' = FALSE
  /\ drainLog' = Append(drainLog, Len(recvLog))
  /\ UNCHANGED <<pkt, lastSender, cbRegistered, intMasked, p, m, macbuf, i,
                 serial, recvLog>>
  /\ UNCHANGED sensorVars

\* line 48: interrupts();
Interrupts ==
  /\ pc = "L48"
  /\ pc' = "L53"
  /\ intMasked' = FALSE
  /\ UNCHANGED <<pktReady, pkt, lastSender, cbRegistered, p, m, macbuf, i,
                 serial, recvLog, drainLog>>
  /\ UNCHANGED sensorVars

\* snprintf(macbuf, 13, "%02X%02X%02X%02X%02X%02X", m[0..5])
MacHex(mac) ==
  Hex2(mac[1]) \o Hex2(mac[2]) \o Hex2(mac[3]) \o Hex2(mac[4]) \o Hex2(mac[5])
  \o Hex2(mac[6])

\* line 53: format the sender MAC into macbuf.
FormatMac ==
  /\ pc = "L53"
  /\ pc' = "L55"
  /\ macbuf' = MacHex(m)
  /\ UNCHANGED <<pktReady, pkt, lastSender, cbRegistered, intMasked, p, m, i,
                 serial, recvLog, drainLog>>
  /\ UNCHANGED sensorVars

\* Mutant of Printed: the prints read the shared mailbox.
Printed_Mailbox == pkt

\* The packet the printing statements read: the local copy p.
Printed == p

\* What the print statement at each line writes.
PrintAt(line) ==
  CASE line = "L55" -> "touch,"
    [] line = "L56" -> macbuf
    [] line = "L57" -> ","
    [] line = "L58" -> Hex2(FieldId(Printed)[1]) \o Hex2(FieldId(Printed)[2])
                       \o Hex2(FieldId(Printed)[3]) \o ","
    [] line = "L59" -> Dec(FieldSeq(Printed))
    [] line = "L60" -> ","
    [] line = "L61" -> DecU32(FieldMs(Printed))
    [] line = "L62" -> ","
    [] line = "L63" -> Dec(FieldN(Printed))

NextLine(line) ==
  CASE line = "L55" -> "L56"
    [] line = "L56" -> "L57"
    [] line = "L57" -> "L58"
    [] line = "L58" -> "L59"
    [] line = "L59" -> "L60"
    [] line = "L60" -> "L61"
    [] line = "L61" -> "L62"
    [] line = "L62" -> "L63"
    [] line = "L63" -> "L64"

\* lines 55..63: the nine prints of the line's head, one per step.
PrintHead ==
  /\ pc \in {"L55", "L56", "L57", "L58", "L59", "L60", "L61", "L62", "L63"}
  /\ serial' = Append(serial, PrintAt(pc))
  /\ pc' = NextLine(pc)
  /\ i' = IF pc = "L63" THEN 0 ELSE i
  /\ UNCHANGED <<pktReady, pkt, lastSender, cbRegistered, intMasked, p, m,
                 macbuf, recvLog, drainLog>>
  /\ UNCHANGED sensorVars

\* Mutant of MoreValues: the loop is bounded by the declared count alone.
MoreValues_Unclamped(k) == k < FieldN(Printed)

\* line 64: the for-loop's condition, i < p.n && i < 32.
MoreValues(k) == k < FieldN(Printed) /\ k < 32

\* lines 64..67: one iteration of the for-loop: ',' and v[i].
PrintValue ==
  /\ pc = "L64"
  /\ MoreValues(i)
  /\ serial' = serial \o <<",", Dec(FieldV(Printed, i))>>
  /\ i' = i + 1
  /\ UNCHANGED <<pc, pktReady, pkt, lastSender, cbRegistered, intMasked, p, m,
                 macbuf, recvLog, drainLog>>
  /\ UNCHANGED sensorVars

\* line 68: Serial.print('\n'); loop returns, its locals die.
PrintNewline ==
  /\ pc = "L64"
  /\ ~MoreValues(i)
  /\ serial' = Append(serial, "\n")
  /\ pc' = "L43"
  /\ p' = ZeroBytes(PacketSize)
  /\ m' = ZeroBytes(6)
  /\ macbuf' = ""
  /\ i' = 0
  /\ UNCHANGED <<pktReady, pkt, lastSender, cbRegistered, intMasked, recvLog,
                 drainLog>>
  /\ UNCHANGED sensorVars

HubNext ==
  \/ HubSetupFail
  \/ HubSetupOk
  \/ HubHalted
  \/ \E d \in Deliveries : onRecv(d)
  \/ LoopTest
  \/ NoInterrupts
  \/ CopyPacket
  \/ CopySender
  \/ ClearReady
  \/ Interrupts
  \/ FormatMac
  \/ PrintHead
  \/ PrintValue
  \/ PrintNewline

\* ---------------------------------------------------------------- sensor

MAX_CH == 32

TOUCH_PINS == <<1, 2, 3, 4, 5, 6, 7, 8, 9, 10, 11, 12, 13, 14>>

\* min(sizeof(TOUCH_PINS) / sizeof(TOUCH_PINS[0]), MAX_CH)
NUM_CH == Min(Len(TOUCH_PINS), MAX_CH)

Channels == 0..(NUM_CH - 1)

\* LPF_ALPHA = 0.2f and BASELINE_ADAPT = 0.0015f as <<numerator, denominator>>.
LPF_ALPHA == <<1, 5>>
BASELINE_ADAPT == <<3, 2000>>

\* The resolution of a modelled float: a float x is the integer nearest to
\* x * FixedOne. (A float32 near 5000 has a resolution of 2^-10 too.) Each
\* assignment stores the exact result rounded to this resolution.
FixedOne == 2 ^ 10

\* The integer nearest to a / b (b > 0), halves away from zero.
RoundDiv(a, b) ==
  IF a >= 0 THEN (2 * a + b) \div (2 * b)
  ELSE -((2 * (-a) + b) \div (2 * b))

\* Mutant of FilterStep: a filter of half the gain, 0.9 * filt + 0.1 * raw.
FilterStep_HalfGain(f, raw) == RoundDiv(9 * f + raw * FixedOne, 10)

\* filt[i] = (1.0f - LPF_ALPHA) * filt[i] + LPF_ALPHA * raw
FilterStep(f, raw) ==
  RoundDiv((LPF_ALPHA[2] - LPF_ALPHA[1]) * f + LPF_ALPHA[1] * raw * FixedOne,
           LPF_ALPHA[2])

\* Mutant of BaselineStep: a baseline ten times as quick.
BaselineStep_Quick(b, f) == b + RoundDiv(3 * (f - b), 200)

\* baseline[i] = (1.0f - BASELINE_ADAPT) * baseline[i] + BASELINE_ADAPT * filt[i]
BaselineStep(b, f) ==
  b + RoundDiv(BASELINE_ADAPT[1] * (f - b), BASELINE_ADAPT[2])

\* Mutant of LRound: (int)filt[i], truncation.
LRound_Truncate(x) == x \div FixedOne

\* lroundf(x)
LRound(x) == RoundDiv(x, FixedOne)

\* if (v < 0) v = 0; if (v > 65535) v = 65535;
Clamp16(v) == IF v < 0 THEN 0 ELSE IF v > 65535 THEN 65535 ELSE v

\* (uint16_t)v
Cast16(v) == v % 65536

\* Mutant of NextSeq: the counter saturates instead of wrapping.
NextSeq_Saturate(x) == Min(x + 1, 65535)

\* seq++ on a uint16_t: the value seq has afterwards.
NextSeq(x) == (x + 1) % 65536

\* periodMs = (TARGET_HZ > 0) ? (1000 / TARGET_HZ) : 0
PeriodMs(hz) == IF hz > 0 THEN 1000 \div hz ELSE 0

\* Mutant of ShouldSend: now >= lastSend + periodMs, compared without
\* wrapping.
ShouldSend_NoWrap(period, now, last) ==
  \/ period = 0
  \/ now[1] > last[1]
  \/ now[1] = last[1] /\ now[2] >= last[2] + period

\* periodMs == 0 || (now - lastSend) >= periodMs
ShouldSend(period, now, last) ==
  period = 0 \/ U32GeNat(U32Sub(now, last), period)

\* Mutant of SendLen: the whole struct is sent.
SendLen_WholeStruct(pk) == PacketSize

\* sizeof(ver) + sizeof(n) + sizeof(id) + sizeof(seq) + sizeof(ms)
\*   + pkt.n * sizeof(uint16_t)
SendLen(pk) == 1 + 1 + 3 + 2 + 4 + pk.n * 2

BCAST == <<255, 255, 255, 255, 255, 255>>

\* The sensor's station MAC, as esp_read_mac returns it.
SensorMac == MacA

\* The builds considered: TARGET_HZ as in the source, and 0 (uncapped).
TargetHzBuilds == {250, 0}

\* Values touchRead may return (it returns a 32-bit count on this chip).
AllAt(r) == [c \in Channels |-> r]
RawPatterns ==
  { AllAt(5001),
    [c \in Channels |-> IF c = 1 THEN 70000 ELSE 5001],
    [c \in Channels |-> IF c = 0 THEN 1000
                        ELSE IF c = 1 THEN 70000 ELSE 5001] }

\* Milliseconds that may pass from one call of loop() to the next.
ClockSteps == {1, 3, 5}

\* delay(200), then per channel 32 times delay(3): what setup waits.
SetupDelay == 200 + NUM_CH * 32 * 3

ZeroPacket == [ver |-> 0, n |-> 0, id |-> <<0, 0, 0>>, seq |-> 0,
               ms |-> U32Zero, v |-> [k \in 1..MAX_CH |-> 0]]

\* Power-on: globals and loop's static are zero, setup has not run.
SensorPowerOn ==
  /\ spc = "setup"
  /\ targetHz \in TargetHzBuilds
  /\ clock = U32Zero
  /\ filt = AllAt(0)
  /\ baseline = AllAt(0)
  /\ seq = 0
  /\ lastSend = U32Zero
  /\ spkt = ZeroPacket
  /\ sserial = <<>>
  /\ air = <<>>
  /\ ticks = 0
  /\ sinceBoot = TRUE

\* Untouched electrodes read 5001 on every channel.
IdlePins == AllAt(5001)

SensorBoot == SensorPowerOn /\ pins = IdlePins

\* A state reached after a long run of sends under a constant raw 5001,
\* which leaves filt and baseline at 5001: the clock is 6 ms before it wraps,
\* seq is 2 before it wraps, the last datagram (seq 65533) went out 2 ms ago.
\* The history starts empty here.
SensorLate ==
  /\ spc = "loop"
  /\ targetHz \in TargetHzBuilds
  /\ clock = U32(65535, 65530)
  /\ filt = AllAt(5001 * FixedOne)
  /\ baseline = AllAt(5001 * FixedOne)
  /\ seq = 65534
  /\ lastSend = U32(65535, 65528)
  /\ spkt = [ver |-> 1, n |-> NUM_CH,
             id |-> <<SensorMac[4], SensorMac[5], SensorMac[6]>>,
             seq |-> 65533, ms |-> U32(65535, 65528),
             v |-> [k \in 1..MAX_CH |-> IF k <= NUM_CH THEN 5001 ELSE 0]]
  /\ sserial = <<>>
  /\ air = <<>>
  /\ ticks = 0
  /\ sinceBoot = FALSE
  /\ pins = IdlePins

SensorInit == SensorBoot \/ SensorLate

\* The sensor as the hub's specification holds it: powered on, never run.
SensorOff == SensorBoot /\ targetHz = 250

\* initESPNow(), esp_now_init() failing.
SensorInitFail ==
  /\ spc = "setup"
  /\ spc' = "halt"
  /\ sserial' = Append(sserial, "ESP-NOW init failed\r\n")
  /\ UNCHANGED <<targetHz, clock, filt, baseline, seq, lastSend, spkt, air,
                 ticks, sinceBoot, pins>>
  /\ UNCHANGED hubVars

\* initESPNow(), esp_now_add_peer() failing.
SensorPeerFail ==
  /\ spc = "setup"
  /\ spc' = "halt"
  /\ sserial' = Append(sserial, "Peer add failed\r\n")
  /\ UNCHANGED <<targetHz, clock, filt, baseline, seq, lastSend, spkt, air,
                 ticks, sinceBoot, pins>>
  /\ UNCHANGED hubVars

\* while(1) delay(100);
SensorHalted ==
  /\ spc = "halt"
  /\ UNCHANGED sensorVars
  /\ UNCHANGED hubVars

\* Mutant of SensorSetup: the baselines are seeded, filt is left at zero.
SensorSetup_FiltUnseeded(a, b) ==
  /\ spc = "setup"
  /\ spc' = "loop"
  /\ clock' = U32Add(clock, SetupDelay)
  /\ spkt' = [spkt EXCEPT !.ver = 1, !.n = NUM_CH % 256,
                          !.id = <<SensorMac[4], SensorMac[5], SensorMac[6]>>]
  /\ baseline' = [c \in Channels |->
                    (16 * a[c] + 16 * b[c]) * (FixedOne \div 32)]
  /\ UNCHANGED <<targetHz, filt, seq, lastSend, sserial, air, ticks,
                 sinceBoot, pins>>
  /\ UNCHANGED hubVars

\* setup() with the radio up: the packet's fixed fields, then the baselines,
\* each the mean of 32 reads (here 16 reads of a, then 16 of b).
SensorSetup(a, b) ==
  /\ spc = "setup"
  /\ spc' = "loop"
  /\ clock' = U32Add(clock, SetupDelay)
  /\ spkt' = [spkt EXCEPT !.ver = 1, !.n = NUM_CH % 256,
                          !.id = <<SensorMac[4], SensorMac[5], SensorMac[6]>>]
  /\ baseline' = [c \in Channels |->
                    (16 * a[c] + 16 * b[c]) * (FixedOne \div 32)]
  /\ filt' = baseline'
  /\ UNCHANGED <<targetHz, seq, lastSend, sserial, air, ticks, sinceBoot,
                 pins>>
  /\ UNCHANGED hubVars

\* loop(): read and filter every channel; if the period has passed, fill the
\* packet and send it. d is the time since the previous call.
SensorTick(raw, d) ==
  /\ spc = "loop"
  /\ ticks' = ticks + 1
  /\ clock' = U32Add(clock, d)
  /\ filt' = [c \in Channels |-> FilterStep(filt[c], raw[c])]
  /\ baseline' = [c \in Channels |-> BaselineStep(baseline[c], filt'[c])]
  /\ LET now == clock'
     IN  IF ShouldSend(PeriodMs(targetHz), now, lastSend)
         THEN /\ lastSend' = now
              /\ spkt' = [spkt EXCEPT
                    !.ms = now,
                    !.seq = seq,
                    !.v = [k \in 1..MAX_CH |->
                             IF k <= NUM_CH
                             THEN Cast16(Clamp16(LRound(filt'[k - 1])))
                             ELSE @[k]]]
              /\ seq' = NextSeq(seq)
              /\ air' = Append(air, [dst |-> BCAST,
                                     bytes |-> Wire(spkt', SendLen(spkt'))])
         ELSE UNCHANGED <<lastSend, spkt, seq, air>>
  /\ UNCHANGED <<spc, targetHz, sserial, sinceBoot, pins>>
  /\ UNCHANGED hubVars

\* loop(), as many calls as the bound lets be explored.
SensorLoop(raw, d) == ticks < MaxTicks /\ SensorTick(raw, d)

SensorNext ==
  \/ SensorInitFail
  \/ SensorPeerFail
  \/ SensorHalted
  \/ \E a \in RawPatterns, b \in RawPatterns : SensorSetup(a, b)
  \/ \E raw \in RawPatterns, d \in ClockSteps : SensorLoop(raw, d)

Init == HubInit /\ SensorOff

\* The hub, with the radio delivering what it will.
Spec == Init /\ [][HubNext]_vars

\* The sensor alone: the hub stays powered off.
SensorSpecInit == SensorInit /\ HubInit

SensorSpec == SensorSpecInit /\ [][SensorNext]_vars

\* ------------------------------------------------- reading the hub's output

\* The positions in serial of the print calls that write a bare line feed:
\* the ends of the telemetry lines (setup's one print is a whole line).
LineEnds == {k \in 1..Len(serial) : serial[k] = "\n"}

\* Where the line that ends (or would end) at position e starts.
LineStart(e) ==
  LET before == {k \in LineEnds : k < e}
  IN  IF before = {} THEN 2 ELSE (CHOOSE k \in before : \A x \in before : x <= k) + 1

\* The completed telemetry lines, each a sequence of print calls.
Lines ==
  LET ends == LineEnds
  IN  [j \in 1..Cardinality(ends) |->
         LET e == CHOOSE k \in ends : Cardinality({x \in ends : x <= k}) = j
         IN  SubSeq(serial, LineStart(e), e)]

\* The print calls of the line being written.
OpenLine == SubSeq(serial, LineStart(Len(serial) + 1), Len(serial))

\* The fields of a line, by position of the print call.
LineMac(l) == l[2]
LineId(l) == l[4]
LineSeq(l) == l[5]
LineMs(l) == l[7]
LineN(l) == l[9]
LineNumValues(l) == (Len(l) - 10) \div 2
LineValue(l, k) == l[11 + 2 * k]

\* The line that reports packet bytes b received from sender mm, in the
\* format of the comment at usb-hub-node.cpp:50: as many values as declared,
\* at most 32.
LineOf(b, mm) ==
  <<"touch,", MacHex(mm), ",",
    Hex2(b[3]) \o Hex2(b[4]) \o Hex2(b[5]) \o ",",
    Dec(b[6] + 256 * b[7]), ",",
    DecU32(U32(b[10] + 256 * b[11], b[8] + 256 * b[9])), ",",
    Dec(b[2])>>
  \o [k \in 1..(2 * Min(b[2], 32)) |->
        IF k % 2 = 1 THEN "," ELSE Dec(b[10 + k] + 256 * b[11 + k])]
  \o <<"\n">>

IsPrefix(a, b) == Len(a) <= Len(b) /\ a = SubSeq(b, 1, Len(a))

\* Delivery k of recvLog was accepted: it carries the 11-byte header.
Accepted(k) == Len(recvLog[k].data) >= 11

AcceptedUpTo(k) == {a \in 1..k : Accepted(a)}

\* The last delivery accepted among the first k.
LatestAccepted(k) ==
  CHOOSE a \in AcceptedUpTo(k) : \A b \in AcceptedUpTo(k) : b <= a

\* The delivery that the j-th clearing of pktReady found in the mailbox.
Drained(j) == LatestAccepted(drainLog[j])

PrintingPcs == {"L53", "L55", "L56", "L57", "L58", "L59", "L60", "L61", "L62",
                "L63", "L64"}

\* -------------------------------------------------------------------- C1
\* C1: copy-out is atomic with respect to the receive callback. Every
\* completed line is the print of the mailbox and the sender slot as one
\* single onRecv invocation left them, and its MAC and short ID are those
\* of that same delivery; while a line is being printed, the local copies
\* p and m are the two slots as one single invocation left them.
C1_AtomicCopyOut ==
  LET ls == Lines
  IN  /\ \A j \in 1..Len(ls) :
           \E k \in 1..Len(recvLog) :
             /\ Accepted(k)
             /\ ls[j] = LineOf(recvLog[k].pkt, recvLog[k].sender)
             /\ LineMac(ls[j]) = MacHex(recvLog[k].mac)
             /\ LineId(ls[j]) = Hex2(recvLog[k].data[3])
                  \o Hex2(recvLog[k].data[4]) \o Hex2(recvLog[k].data[5]) \o ","
      /\ pc \in PrintingPcs =>
           \E k \in 1..Len(recvLog) :
             Accepted(k) /\ p = recvLog[k].pkt /\ m = recvLog[k].sender

\* Two sensors have each had a datagram accepted and a line printed.
C1_Witness ==
  /\ Len(Lines) >= 2
  /\ LineMac(Lines[1]) # LineMac(Lines[2])
  /\ LineId(Lines[1]) # LineId(Lines[2])
  /\ pc = "L43"

\* -------------------------------------------------------------------- C2
\* Value k of a payload is carried when both of its bytes are in the payload.
Carries(data, k) == 13 + 2 * k <= Len(data)

\* The datagrams accepted between the (j-1)-th and the j-th clearing.
Batch(j) ==
  {a \in AcceptedUpTo(drainLog[j]) : j = 1 \/ a > drainLog[j - 1]}

\* C2: loss policy. Datagrams accepted with no copy-out between them give
\* exactly one line, and it reports the later one: every clearing of
\* pktReady finds a datagram accepted since the previous clearing, there is
\* one line per clearing (none for the overwritten ones), and line j carries
\* the MAC, id, seq, ms and carried values of the last datagram accepted
\* before clearing j.
C2_LossPolicy ==
  LET ls == Lines
  IN  /\ Len(ls) <= Len(drainLog)
      /\ Len(drainLog) <= Len(ls) + 1
      /\ pc = "L43" => Len(ls) = Len(drainLog)
      /\ \A j \in 1..Len(drainLog) : Batch(j) # {}
      /\ \A j \in 1..Len(ls) :
           LET d == recvLog[Drained(j)]
           IN  /\ LineMac(ls[j]) = MacHex(d.mac)
               /\ LineId(ls[j]) = Hex2(d.data[3]) \o Hex2(d.data[4])
                                  \o Hex2(d.data[5]) \o ","
               /\ LineSeq(ls[j]) = Dec(d.data[6] + 256 * d.data[7])
               /\ LineMs(ls[j]) = DecU32(U32(d.data[10] + 256 * d.data[11],
                                             d.data[8] + 256 * d.data[9]))
               /\ \A k \in 0..(LineNumValues(ls[j]) - 1) :
                    Carries(d.data, k) =>
                      LineValue(ls[j], k)
                        = Dec(d.data[12 + 2 * k] + 256 * d.data[13 + 2 * k])

\* A line is out for a batch of two datagrams of different sensors.
C2_Witness ==
  /\ pc = "L43"
  /\ \E j \in 1..Len(Lines) :
       \E a \in Batch(j) :
         /\ a < Drained(j)
         /\ recvLog[a].mac # recvLog[Drained(j)].mac
         /\ recvLog[a].data # recvLog[Drained(j)].data
         /\ LineNumValues(Lines[j]) >= 1

\* -------------------------------------------------------------------- C3
\* The print calls that begin a telemetry line.
LinesBegun == {k \in 1..Len(serial) : serial[k] = "touch,"}

\* C3: a delivery shorter than 11 bytes changes neither the mailbox, nor the
\* sender slot, nor the ready flag, nor the output; and there are never more
\* lines begun than deliveries of at least 11 bytes.
C3_ShortDropped ==
  /\ [][(/\ Len(recvLog') = Len(recvLog) + 1
         /\ Len(recvLog'[Len(recvLog')].data) < 11)
        => /\ pkt' = pkt
           /\ lastSender' = lastSender
           /\ pktReady' = pktReady
           /\ serial' = serial]_vars
  /\ [](Cardinality(LinesBegun)
          <= Cardinality(AcceptedUpTo(Len(recvLog))))

\* Only short datagrams have been delivered, the main loop has looked, and
\* the hub has printed nothing but setup's line.
C3_Witness ==
  /\ Len(recvLog) >= 2
  /\ \A k \in 1..Len(recvLog) : Len(recvLog[k].data) = 10
  /\ pc = "L43"
  /\ ~pktReady
  /\ pkt = ZeroBytes(PacketSize)
  /\ Len(serial) = 1

\* -------------------------------------------------------------------- C4
\* C4: the <n> field of every line is the declared channel count clamped to
\* min(n, 32).
C4_NFieldClamped ==
  LET ls == Lines
  IN  \A j \in 1..Len(ls) :
        LineN(ls[j]) = Dec(Min(recvLog[Drained(j)].data[2], 32))

\* -------------------------------------------------------------------- C5
\* C5: every line has min(n, 32) value fields after <n>, n being the declared
\* count of the datagram it reports, and the for-loop never reaches a read of
\* v[i] with i >= 32.
C5_ValueCount ==
  LET ls == Lines
  IN  /\ \A j \in 1..Len(ls) :
           /\ Len(ls[j]) = 10 + 2 * Min(recvLog[Drained(j)].data[2], 32)
           /\ LineNumValues(ls[j]) = Min(recvLog[Drained(j)].data[2], 32)
      /\ pc = "L64" => i <= 32 /\ (MoreValues(i) => i < 32)

\* Lines are out for a datagram declaring 40 channels (32 values) and for one
\* declaring fewer than 32.
C5_Witness ==
  /\ \E j \in 1..Len(Lines) :
       recvLog[Drained(j)].data[2] = 40 /\ LineNumValues(Lines[j]) = 32
  /\ \E j \in 1..Len(Lines) :
       recvLog[Drained(j)].data[2] < 32
       /\ LineNumValues(Lines[j]) = recvLog[Drained(j)].data[2]

\* -------------------------------------------------------------------- C9
\* C9: lines are never interleaved. The output after setup's line is, print
\* call by print call, the whole line of the first drained datagram, then the
\* whole line of the second, ..., then a prefix of the line of the datagram
\* drained last, whatever the callback has delivered meanwhile.
C9_NoInterleaving ==
  LET ls == Lines
      open == OpenLine
  IN  /\ Len(ls) <= Len(drainLog)
      /\ \A j \in 1..Len(ls) :
           ls[j] = LineOf(recvLog[Drained(j)].pkt, recvLog[Drained(j)].sender)
      /\ open # <<>> =>
           /\ Len(drainLog) = Len(ls) + 1
           /\ IsPrefix(open, LineOf(recvLog[Drained(Len(ls) + 1)].pkt,
                                    recvLog[Drained(Len(ls) + 1)].sender))

\* Values of A's line are being printed and the callback has meanwhile put
\* another sensor's datagram B into the mailbox.
C9_Witness ==
  /\ pc = "L64"
  /\ i >= 1
  /\ Len(drainLog) >= 1
  /\ Len(recvLog) > drainLog[Len(drainLog)]
  /\ Accepted(Len(recvLog))
  /\ recvLog[Len(recvLog)].mac # m
  /\ pkt # p

\* ------------------------------------------- reading the sensor's datagrams

\* The fields of the k-th datagram handed to the radio, read from its bytes.
AirN(k) == air[k].bytes[2]
AirSeq(k) == air[k].bytes[6] + 256 * air[k].bytes[7]
AirMs(k) == U32(air[k].bytes[10] + 256 * air[k].bytes[11],
                air[k].bytes[8] + 256 * air[k].bytes[9])
AirValue(k, c) == air[k].bytes[12 + 2 * c] + 256 * air[k].bytes[13 + 2 * c]

\* The call of loop() that this step is handed a datagram to the radio.
Sends == Len(air') = Len(air) + 1

\* -------------------------------------------------------------------- C6
\* C6: every datagram handed to the radio is 11 + 2*n bytes long, n being
\* its own n field, and n is NUM_CH, between 1 and 32.
C6_DatagramLength ==
  \A k \in 1..Len(air) :
    /\ Len(air[k].bytes) = 11 + 2 * AirN(k)
    /\ AirN(k) = NUM_CH
    /\ 1 <= AirN(k) /\ AirN(k) <= 32
    /\ air[k].dst = BCAST

\* Two datagrams have gone out since power-on, shorter than the struct.
C6_Witness ==
  /\ sinceBoot
  /\ Len(air) >= 2
  /\ Len(air[2].bytes) < PacketSize

\* -------------------------------------------------------------------- C7
\* C7: seq of consecutive datagrams goes up by exactly 1 modulo 2^16, the
\* first datagram after power-on has seq 0, and seq changes only in a call
\* of loop() that sends.
C7_SeqIncrements ==
  /\ [](\A k \in 1..(Len(air) - 1) :
          /\ AirSeq(k + 1) = (AirSeq(k) + 1) % 65536
          /\ (AirSeq(k + 1) - AirSeq(k)) % 65536 >= 1)
  /\ [](sinceBoot /\ air # <<>> => AirSeq(1) = 0)
  /\ [][seq' # seq => Sends /\ AirSeq(Len(air))' = seq]_vars

\* A datagram with seq 65535 has been followed by one with seq 0.
C7_Witness ==
  \E k \in 1..(Len(air) - 1) : AirSeq(k) = 65535 /\ AirSeq(k + 1) = 0

\* -------------------------------------------------------------------- C8
\* v is x (in units of 1/FixedOne) rounded to the nearest integer and
\* clamped to 0..65535.
IsRoundedClamped(v, x) ==
  /\ v \in 0..65535
  /\ 2 * x >= 2 * 65535 * FixedOne - FixedOne => v = 65535
  /\ 2 * x <= FixedOne => v \in {0, 1}
  /\ x <= 0 => v = 0
  /\ (2 * x > FixedOne /\ 2 * x < 2 * 65535 * FixedOne - FixedOne) =>
       /\ 2 * (v * FixedOne - x) <= FixedOne
       /\ 2 * (x - v * FixedOne) <= FixedOne

\* C8: every channel value of every datagram is in 0..65535, and is filt[i]
\* as the same call of loop() left it, rounded to nearest and clamped.
C8_ValuesRoundedClamped ==
  /\ [](\A k \in 1..Len(air) : \A c \in 0..(AirN(k) - 1) :
          AirValue(k, c) \in 0..65535)
  /\ [][Sends =>
          \A c \in 0..(AirN(Len(air))' - 1) :
            IsRoundedClamped(AirValue(Len(air), c)', filt'[c])]_vars

\* The call of loop() just made has sent a datagram in which one channel was
\* clamped at 65535 and another was rounded up.
C8_Witness ==
  /\ air # <<>>
  /\ AirMs(Len(air)) = clock
  /\ \E c \in Channels :
       filt[c] > 65535 * FixedOne /\ AirValue(Len(air), c) = 65535
  /\ \E c \in Channels :
       AirValue(Len(air), c) * FixedOne > filt[c]

\* ------------------------------------------------------------------- C10
\* Less than per milliseconds lie from last to now, counting modulo 2^32.
Within(now, last, per) == now \in {U32Add(last, e) : e \in 0..(per - 1)}

\* The period the claim states for the build.
StatedPeriod == IF targetHz = 250 THEN 4 ELSE 0

\* C10: a call of loop() sends iff (now - lastSend) mod 2^32 >= periodMs
\* (4 with TARGET_HZ = 250; with period 0 every call sends); the datagram's
\* ms is that call's now, which becomes lastSend; lastSend is the ms of the
\* previous datagram (0 before the first); so consecutive datagrams are at
\* least 4 ms apart modulo 2^32.
C10_Pacing ==
  /\ [][ticks' = ticks + 1 =>
          /\ Sends <=> ~Within(clock', lastSend, StatedPeriod)
          /\ Sends => AirMs(Len(air))' = clock' /\ lastSend' = clock'
          /\ ~Sends => air' = air /\ lastSend' = lastSend]_vars
  /\ [](air # <<>> => lastSend = AirMs(Len(air)))
  /\ [](air = <<>> /\ sinceBoot => lastSend = U32Zero)
  /\ [](targetHz = 250 =>
          \A k \in 1..(Len(air) - 1) : ~Within(AirMs(k + 1), AirMs(k), 4))

\* With TARGET_HZ = 250, a call of loop() has sent nothing, and of two
\* datagrams the first went out before the clock wrapped, the second after.
C10_Witness ==
  /\ targetHz = 250
  /\ Len(air) >= 2
  /\ ticks > Len(air)
  /\ AirMs(1)[1] = 65535
  /\ AirMs(2)[1] = 0

\* ------------------------------------------------------------------- C11
\* C11: everything the hub writes to Serial is the HUB_MAC line, written
\* once and first, or belongs to a line that starts with "touch,"; no error
\* message is written.
C11_OnlyTelemetry ==
  /\ serial # <<>> => serial[1] = HubMacLine(HubMac)
  /\ \A k \in 2..Len(serial) : serial[k] # HubMacLine(HubMac)
  /\ \A e \in LineEnds : serial[LineStart(e)] = "touch,"
  /\ OpenLine # <<>> => OpenLine[1] = "touch,"

\* ------------------------------------------------------------------- C12
\* Either node, run from power-on while the other has no power: a board
\* without power takes no step, its state is that of its reset.
HubDown ==
  /\ pc = "off"
  /\ pktReady = FALSE
  /\ pkt = ZeroBytes(PacketSize)
  /\ lastSender = ZeroBytes(6)
  /\ cbRegistered = FALSE
  /\ intMasked = FALSE
  /\ p = ZeroBytes(PacketSize)
  /\ m = ZeroBytes(6)
  /\ macbuf = ""
  /\ i = 0
  /\ serial = <<>>
  /\ recvLog = <<>>
  /\ drainLog = <<>>

SensorDown ==
  /\ spc = "off"
  /\ targetHz = 250
  /\ clock = U32Zero
  /\ filt = AllAt(0)
  /\ baseline = AllAt(0)
  /\ seq = 0
  /\ lastSend = U32Zero
  /\ spkt = ZeroPacket
  /\ sserial = <<>>
  /\ air = <<>>
  /\ ticks = 0
  /\ sinceBoot = TRUE
  /\ pins = IdlePins

NodeInit == (HubInit /\ SensorDown) \/ (HubDown /\ SensorBoot)

NodeNext == HubNext \/ SensorNext

NodeSpec == NodeInit /\ [][NodeNext]_vars

InitFatalMessages == {"ESP-NOW init failed\r\n", "Peer add failed\r\n"}

HubLogged == {k \in 1..Len(serial) : serial[k] \in InitFatalMessages}

SensorLogged == {k \in 1..Len(sserial) : sserial[k] \in InitFatalMessages}

\* C12: a node whose radio initialisation (either node) or peer registration
\* (sensor) failed has logged exactly one message and is halted, and a halted
\* node stays halted with nothing changing: the halted hub has no callback
\* registered, has accepted nothing and printed no touch line, the halted
\* sensor has run no loop pass and sent no datagram.
C12_InitFatalHalts ==
  /\ []((HubLogged # {} \/ pc = "halt") =>
          (/\ pc = "halt"
           /\ Len(serial) = 1
           /\ serial[1] = "ESP-NOW init failed\r\n"
           /\ ~cbRegistered
           /\ recvLog = <<>>
           /\ LinesBegun = {}))
  /\ []((SensorLogged # {} \/ spc = "halt") =>
          (/\ spc = "halt"
           /\ Len(sserial) = 1
           /\ sserial[1] \in InitFatalMessages
           /\ ticks = 0
           /\ air = <<>>))
  /\ [][pc = "halt" => (pc' = "halt" /\ UNCHANGED hubVars)]_vars
  /\ [][spc = "halt" => (spc' = "halt" /\ UNCHANGED sensorVars)]_vars

\* The hub sits in its while(1) after the one message, callback unregistered.
C12_Witness ==
  /\ pc = "halt"
  /\ serial = <<"ESP-NOW init failed\r\n">>
  /\ ~cbRegistered

\* ------------------------------------------------- constant-input scenarios

\* Calls of loop() explored in a scenario.
ScenarioTicks == 100

\* Steady scenario: every read of every channel returns the same level.
SteadyLevels == {0, 1, 5000, 40000, 65535}

SteadyInit == SensorPowerOn /\ pins \in {AllAt(r) : r \in SteadyLevels}

\* Touch scenario: the sensor has run long enough on reads of 5000 that filt
\* and baseline are 5000; from now on channel 0 reads 1000.
TouchedPins == [c \in Channels |-> IF c = 0 THEN 1000 ELSE 5000]

TouchInit ==
  /\ spc = "loop"
  /\ targetHz \in TargetHzBuilds
  /\ clock = U32(0, 20000)
  /\ filt = AllAt(5000 * FixedOne)
  /\ baseline = AllAt(5000 * FixedOne)
  /\ seq = 0
  /\ lastSend = U32Zero
  /\ spkt = [ZeroPacket EXCEPT
               !.ver = 1, !.n = NUM_CH % 256,
               !.id = <<SensorMac[4], SensorMac[5], SensorMac[6]>>]
  /\ sserial = <<>>
  /\ air = <<>>
  /\ ticks = 0
  /\ sinceBoot = FALSE
  /\ pins = TouchedPins

ScenarioInit == (SteadyInit \/ TouchInit) /\ HubInit

\* One call of loop() takes 3 ms.
ScenarioSteps == {3}

ScenarioSetup == SensorSetup(pins, pins)

ScenarioLoop(d) == ticks < ScenarioTicks /\ SensorTick(pins, d)

ScenarioNext ==
  \/ ScenarioSetup
  \/ \E d \in ScenarioSteps : ScenarioLoop(d)

ScenarioSpec == ScenarioInit /\ [][ScenarioNext]_vars

\* The value of channel c that a datagram sent now would carry.
ValueNow(c) == Cast16(Clamp16(LRound(filt[c])))

\* ------------------------------------------------------------------- C13
\* C13 as stated: in the touch scenario v[0] is at most 1800 from the 5th
\* tick on and at most 1010 from the 40th tick on.
C13_TransientAsStated ==
  pins = TouchedPins =>
    /\ ticks >= 5 => ValueNow(0) <= 1800
    /\ ticks >= 40 => ValueNow(0) <= 1010

\* C13, amended: in the touch scenario v[0] is above 1800 up to the 7th tick
\* (2311 after the 5th), at most 1800 from the 8th tick on, and at most 1010
\* from the 40th tick on.
C13_Transient ==
  pins = TouchedPins =>
    /\ ticks = 5 => ValueNow(0) = 2311
    /\ ticks <= 7 => ValueNow(0) > 1800
    /\ ticks >= 8 => ValueNow(0) <= 1800
    /\ ticks >= 40 => ValueNow(0) <= 1010

\* Forty ticks into the touch, channel 0 has come down to 1001.
C13_Witness ==
  /\ pins = TouchedPins
  /\ ticks = 40
  /\ ValueNow(0) = 1001

\* ------------------------------------------------------------------- C14
\* The distance of baseline[0] from the 5000 it had when the touch began.
BaselineShift ==
  IF baseline[0] >= 5000 * FixedOne
  THEN baseline[0] - 5000 * FixedOne
  ELSE 5000 * FixedOne - baseline[0]

\* C14 as stated: in the touch scenario baseline[0] is within 40 units of
\* 5000 during the first 100 ticks.
C14_BaselineAsStated ==
  (pins = TouchedPins /\ ticks <= 100) => BaselineShift <= 40 * FixedOne

\* C14, amended: in the touch scenario baseline[0] is within 40 units of
\* 5000 during the first 10 ticks, more than 40 units away from the 11th
\* tick on, and within 537 units during the first 100 ticks.
C14_Baseline ==
  pins = TouchedPins =>
    /\ ticks <= 10 => BaselineShift <= 40 * FixedOne
    /\ ticks >= 11 => BaselineShift > 40 * FixedOne
    /\ ticks <= 100 => BaselineShift <= 537 * FixedOne

\* A hundred ticks into the touch the baseline has sunk by more than 536.
C14_Witness ==
  /\ pins = TouchedPins
  /\ ticks = 100
  /\ BaselineShift > 536 * FixedOne

\* ------------------------------------------------------------------- C15
Near(x, y, tol) == x - y <= tol /\ y - x <= tol

\* C15: in the steady scenario, once setup() has seeded the channels, filt
\* and baseline of every channel are within one unit of the level read, and
\* every datagram sent carries that level, give or take one, on every
\* channel.
C15_SteadyFixedPoint ==
  (sinceBoot /\ spc = "loop") =>
    /\ \A c \in Channels :
         /\ Near(filt[c], pins[c] * FixedOne, FixedOne)
         /\ Near(baseline[c], pins[c] * FixedOne, FixedOne)
    /\ \A k \in 1..Len(air) : \A c \in Channels :
         Near(AirValue(k, c), pins[c], 1)

\* Booted on a level of 40000, the sensor has sent thirty datagrams and its
\* hundredth loop pass still finds filt and baseline at that level.
C15_Witness ==
  /\ sinceBoot
  /\ spc = "loop"
  /\ pins = AllAt(40000)
  /\ ticks = ScenarioTicks
  /\ Len(air) >= 30
  /\ filt[0] = 40000 * FixedOne
  /\ baseline[NUM_CH - 1] = 40000 * FixedOne

\* ------------------------------------------------------------------- C16
\* Packets as a sensor's struct holds them when it sends: 14 channels as the
\* sensor of this repository, and the extremes 1 and 32.
Dg14 == [ver |-> 1, n |-> NUM_CH, id |-> <<SensorMac[4], SensorMac[5], SensorMac[6]>>,
         seq |-> 513, ms |-> U32(3, 1027),
         v |-> Pad32([k \in 1..NUM_CH |-> 4096 * k + k])]
Dg32 == [ver |-> 255, n |-> MAX_CH, id |-> <<0, 255, 16>>, seq |-> 65280,
         ms |-> U32(65280, 255),
         v |-> [k \in 1..MAX_CH |-> IF k = 1 THEN 0 ELSE 2048 * k - 1]]

SentPackets == {DgA, DgB, Dg14, Dg32}

\* The sender of a packet: its id is the tail of its MAC.
SenderOf(d) == <<36, 10, 196, d.id[1], d.id[2], d.id[3]>>

\* What the radio delivers when sensors send these packets with the length
\* the sensor computes.
SentDeliveries ==
  {[mac |-> SenderOf(d), data |-> Wire(d, SendLen(d))] : d \in SentPackets}

RoundTripNext ==
  \/ HubSetupFail
  \/ HubSetupOk
  \/ HubHalted
  \/ \E d \in SentDeliveries : onRecv(d)
  \/ LoopTest
  \/ NoInterrupts
  \/ CopyPacket
  \/ CopySender
  \/ ClearReady
  \/ Interrupts
  \/ FormatMac
  \/ PrintHead
  \/ PrintValue
  \/ PrintNewline

\* The hub, receiving only what sensors send.
RoundTripSpec == Init /\ [][RoundTripNext]_vars

\* The packet whose sending put these bytes on the air.
SentAs(data) == CHOOSE d \in SentPackets : Wire(d, SendLen(d)) = data

\* C16: the bytes 1..11+2n of a sent packet, taken by onRecv and copied out
\* by loop(), read back in loop's copy as the packet's ver, n, id, seq, ms
\* and first n values, and the line printed for it shows that id, seq, ms
\* and n and exactly those n values.
C16_RoundTrip ==
  LET ls == Lines
  IN  /\ \A j \in 1..Len(ls) :
           LET d == SentAs(recvLog[Drained(j)].data)
           IN  /\ LineMac(ls[j]) = MacHex(SenderOf(d))
               /\ LineId(ls[j]) = Hex2(d.id[1]) \o Hex2(d.id[2])
                                  \o Hex2(d.id[3]) \o ","
               /\ LineSeq(ls[j]) = Dec(d.seq)
               /\ LineMs(ls[j]) = DecU32(d.ms)
               /\ LineN(ls[j]) = Dec(d.n)
               /\ Len(ls[j]) = 10 + 2 * d.n
               /\ \A k \in 0..(d.n - 1) : LineValue(ls[j], k) = Dec(d.v[k + 1])
      /\ pc \in PrintingPcs =>
           LET d == SentAs(recvLog[Drained(Len(drainLog))].data)
           IN  /\ FieldVer(p) = d.ver
               /\ FieldN(p) = d.n
               /\ FieldId(p) = d.id
               /\ FieldSeq(p) = d.seq
               /\ FieldMs(p) = d.ms
               /\ \A k \in 0..(d.n - 1) : FieldV(p, k) = d.v[k + 1]

\* A 32-channel packet has been printed, then a shorter one has landed on
\* its bytes in the mailbox and is being printed.
C16_Witness ==
  /\ Len(Lines) = 1
  /\ SentAs(recvLog[Drained(1)].data) = Dg32
  /\ Len(drainLog) = 2
  /\ SentAs(recvLog[Drained(2)].data) = DgA
  /\ pc = "L64"
  /\ i = 2

\* ------------------------------------------------------------------- C17
\* The steps of loop(): the main thread past setup().
MainLoop ==
  \/ LoopTest
  \/ NoInterrupts
  \/ CopyPacket
  \/ CopySender
  \/ ClearReady
  \/ Interrupts
  \/ FormatMac
  \/ PrintHead
  \/ PrintValue
  \/ PrintNewline

\* The hub with a main loop that keeps being scheduled: Arduino's loopTask
\* calls loop() again and again, and nothing in loop() blocks.
HubFairSpec == Spec /\ WF_vars(MainLoop)

\* A completed line shows delivery k or an accepted one after it.
Emitted(k) ==
  \E j \in 1..Len(Lines) :
    /\ Drained(j) >= k
    /\ Lines[j] = LineOf(recvLog[Drained(j)].pkt, recvLog[Drained(j)].sender)

\* C17: pktReady rises only in a step of onRecv that accepts a datagram and
\* falls only in loop's step at line 47, inside the masked section; every
\* accepted datagram is followed by a completed line that shows it or a later
\* accepted one; and pktReady is eventually false for good (the radio
\* delivers finitely many datagrams).
C17_ReadyProtocol ==
  /\ [][(~pktReady /\ pktReady') =>
          /\ Len(recvLog') = Len(recvLog) + 1
          /\ Len(recvLog'[Len(recvLog')].data) >= 11
          /\ pc' = pc]_vars
  /\ [][(pktReady /\ ~pktReady') =>
          /\ pc = "L47"
          /\ pc' = "L48"
          /\ intMasked
          /\ recvLog' = recvLog]_vars
  /\ \A k \in 1..(MaxRecv + 1) :
       (Len(recvLog) >= k /\ Accepted(k)) ~> Emitted(k)
  /\ <>[](~pktReady)

\* The last datagram the radio had was accepted and its line is out; the
\* flag is down and the loop is back at its test.
C17_Witness ==
  /\ Len(recvLog) >= 2
  /\ Accepted(Len(recvLog))
  /\ Emitted(Len(recvLog))
  /\ Len(Lines) >= 2
  /\ ~pktReady
  /\ pc = "L43"

\* ------------------------------------------------------------------- C18
\* C18: a step of onRecv on a datagram of L >= 11 bytes leaves the mailbox
\* 75 bytes long, its first min(L, 75) bytes those of the datagram and the
\* others as they were, leaves the sender slot holding the sender's MAC and
\* pktReady true, and changes nothing else of the hub.
C18_OnRecvFrame ==
  [][(/\ Len(recvLog') = Len(recvLog) + 1
      /\ Len(recvLog'[Len(recvLog')].data) >= 11)
     => LET d == recvLog'[Len(recvLog')]
            L == Len(d.data)
        IN  /\ Len(pkt') = PacketSize
            /\ \A k \in 1..PacketSize :
                 pkt'[k] = IF k <= Min(L, 75) THEN d.data[k] ELSE pkt[k]
            /\ lastSender' = d.mac
            /\ pktReady'
            /\ UNCHANGED <<pc, cbRegistered, intMasked, p, m, macbuf, i,
                           serial, drainLog>>]_vars

\* A 100-byte datagram filled the mailbox, then a 13-byte one landed on it:
\* the mailbox holds the 13 bytes followed by bytes 14..75 of the long one.
C18_Witness ==
  /\ Len(recvLog) = 2
  /\ Len(recvLog[1].data) = 100
  /\ Len(recvLog[2].data) = 13
  /\ pkt = recvLog[2].data \o SubSeq(recvLog[1].data, 14, 75)
  /\ pkt[75] # 0
  /\ lastSender = recvLog[2].mac
  /\ pktReady

\* ------------------------------------------------------------------- C19
\* C19: every value printed on a line is the one that the datagram the line
\* reports carried in that slot; a slot which that datagram did not carry is
\* never one that an earlier datagram wrote, so a line never prints a value
\* left in the mailbox by an earlier datagram.
C19_ValuesOfOwnDatagram ==
  LET ls == Lines
  IN  \A j \in 1..Len(ls) :
        LET d == recvLog[Drained(j)].data
        IN  \A k \in 0..(LineNumValues(ls[j]) - 1) :
              IF Carries(d, k)
              THEN LineValue(ls[j], k) = Dec(d[12 + 2 * k] + 256 * d[13 + 2 * k])
              ELSE \A a \in 1..(Drained(j) - 1) :
                     ~(Accepted(a) /\ Carries(recvLog[a].data, k))

\* ------------------------------------------------------------------- C20
\* C20: the hub has begun no more lines than onRecv has accepted datagrams
\* and no more than loop() has cleared pktReady; successive clearings find
\* successively later deliveries in the mailbox, and the line that follows
\* clearing j is the print of the delivery that clearing found: no two lines
\* report one delivery.
C20_NoDuplicateLine ==
  LET ls == Lines
  IN  /\ Cardinality(LinesBegun) <= Cardinality(AcceptedUpTo(Len(recvLog)))
      /\ Cardinality(LinesBegun) <= Len(drainLog)
      /\ \A j \in 1..Len(drainLog) : \A h \in 1..(j - 1) :
           Drained(h) < Drained(j)
      /\ \A j \in 1..Len(ls) :
           ls[j] = LineOf(recvLog[Drained(j)].pkt, recvLog[Drained(j)].sender)

\* A second datagram was accepted after loop() had seen pktReady set and
\* before it masked interrupts; the one line that followed reports it, and
\* loop() is back at its test with pktReady false.
C20_Witness ==
  /\ Len(recvLog) = 2
  /\ Accepted(1)
  /\ Accepted(2)
  /\ ~recvLog[1].afterTest
  /\ recvLog[2].afterTest
  /\ recvLog[1].data # recvLog[2].data
  /\ drainLog = <<2>>
  /\ Len(Lines) = 1
  /\ Lines[1] = LineOf(recvLog[2].pkt, recvLog[2].sender)
  /\ ~pktReady
  /\ pc = "L43"

====
